---- MODULE Spec2Model ----
(***************************************************************************)
(* MemoryPool of ArduinoJson (src/ArduinoJson/Memory/MemoryPool.hpp): one  *)
(* buffer obtained from an Allocator, split into a string region          *)
(* [_begin, _left) growing upward and a slot region [_right, _end)        *)
(* growing downward.                                                       *)
(*                                                                         *)
(* Addresses are integers, memory is a function from addresses to cells.   *)
(* Address 0 is the null pointer.  A cell holds one byte of a string       *)
(* (0 is NUL) or one field of a VariantSlot.                               *)
(***************************************************************************)
EXTENDS Integers, Sequences, FiniteSets, TLC

\* ---------------------------------------------------------------- sizes

\* sizeof(void*): the alignment unit of addPadding / isAligned.
PtrSize == 2

\* sizeof(VariantSlot): a multiple of the pointer size.  A slot is laid out
\* as the cells  key | next  (the address of its key string and of its next
\* sibling; 0 is none).
SlotSize == 2

\* The byte ArmoredAllocator writes over memory it gives back; also stands
\* for the indeterminate content of memory the pool has not written.
Junk == 35

\* Largest capacity asked of the constructor and of reallocPool.
MaxCapa == 5

\* Strings handed to saveString have at most MaxStrLen characters.
MaxStrLen == 2

\* ------------------------------------------------------------- alignment

\* Alignment.hpp: round a size or an address up to a multiple of PtrSize.
addPadding(n) == ((n + PtrSize - 1) \div PtrSize) * PtrSize

isAligned(p) == p % PtrSize = 0

\* --------------------------------------------------------- address space

\* The allocator hands out blocks at one of two aligned base addresses, so
\* that a reallocation can move the buffer up, down or not at all.
BaseLo == PtrSize
BaseHi == BaseLo + addPadding(MaxCapa)
Bases == {BaseLo, BaseHi}

\* One cell past the higher block exists.
MemSize == BaseHi + addPadding(MaxCapa) + 1
Addr == 0..(MemSize - 1)

\* The characters of a string: NUL (a sized string may hold it) and one other
\* character; the pool only compares characters with each other and with NUL.
Chars == {0, 1}
Strings == UNION {[1..n -> Chars] : n \in 0..MaxStrLen}
\* An adapted string whose isNull() is true.
NullString == <<Junk>>

VARIABLES
  mem,          \* the address space: Addr -> cell
  _begin,       \* MemoryPool::_begin
  _left,        \* MemoryPool::_left
  _right,       \* MemoryPool::_right
  _end,         \* MemoryPool::_end
  _overflowed,  \* MemoryPool::_overflowed
  _ptr,         \* ArmoredAllocator::_ptr, the live block (0: none)
  _size,        \* ArmoredAllocator::_size, the size the block was allocated with
  root,         \* the document's root collection: [head, tail], slot addresses
  lastOp,       \* the operation that produced this state
  arg,          \* the string given to saveString or written to the free zone
                \* (0 for the other operations)
  ret,          \* what it returned
  calls,        \* the allocator calls it made, in order
  prior,        \* when it and the operation before it were both shrinkToFit:
                \* the bytes that one reclaimed; otherwise -1
  alive,        \* the pool is constructed and not yet destroyed
  src           \* another pool, the source of a move-assignment: its state
                \* ("none" before its construction, "alive", "destroyed"), its
                \* members and the live block of its allocator

vars == <<mem, _begin, _left, _right, _end, _overflowed, _ptr, _size, root,
          lastOp, arg, ret, calls, prior, alive, src>>

cursors == <<_begin, _left, _right, _end>>

NoRoot == [head |-> 0, tail |-> 0]

\* The other pool before it is constructed.
NoSrc == [st |-> "none", begin |-> 0, left |-> 0, right |-> 0, end |-> 0,
          overflowed |-> FALSE, ptr |-> 0, size |-> 0]

\* An entry of calls: the Allocator method, its arguments and its result.
Call(fn, ptr, n, result) == [fn |-> fn, ptr |-> ptr, size |-> n, result |-> result]

\* ---------------------------------------------------------------- queries

capacity == _end - _begin

size == (_left - _begin) + (_end - _right)

\* canAlloc measuring the room up to _end instead of _right.
canAllocEnd(bytes) == _left + bytes <= _end

canAlloc(bytes) == _left + bytes <= _right

owns(p) == _begin <= p /\ p < _end

\* ------------------------------------------------------------ the allocator

\* Where the allocator may place a block of n bytes while [p, p + sz) is live.
FreeBases(n, p, sz) ==
  {b \in Bases : b + n < MemSize /\ (b + n <= p \/ p + sz <= b \/ sz = 0)}

\* free(): the block's cells are erased.
Freed(m, p, sz) ==
  [a \in Addr |-> IF p <= a /\ a < p + sz THEN Junk ELSE m[a]]

\* malloc(): a block whose content is indeterminate.
Allocated(m, b, n) ==
  [a \in Addr |-> IF b <= a /\ a < b + n THEN Junk ELSE m[a]]

Min(a, b) == IF a < b THEN a ELSE b

\* reallocate(p, n) returning nb: the first min(n, sz) bytes are kept; what is
\* no longer part of the block is erased.
Reallocated(m, p, sz, nb, n) ==
  [a \in Addr |->
     IF nb <= a /\ a < nb + Min(n, sz) THEN m[a - nb + p]
     ELSE IF (p <= a /\ a < p + sz) \/ (nb <= a /\ a < nb + n) THEN Junk
     ELSE m[a]]

\* ------------------------------------------------------------ construction

\* allocPool(capa), the allocator returning buf: the four cursors it sets.
allocPool(capa, buf) ==
  [begin |-> buf,
   left |-> buf,
   end |-> IF buf # 0 THEN buf + capa ELSE 0,
   right |-> IF buf # 0 THEN buf + capa ELSE 0]

\* MemoryPool(capa, allocator): allocPool(addPadding(capa)).
Init ==
  \E capa \in 0..MaxCapa :
    \E buf \in (IF addPadding(capa) = 0 THEN {0} ELSE Bases) :
      /\ mem = [a \in Addr |-> Junk]
      /\ _begin = allocPool(addPadding(capa), buf).begin
      /\ _left = allocPool(addPadding(capa), buf).left
      /\ _right = allocPool(addPadding(capa), buf).right
      /\ _end = allocPool(addPadding(capa), buf).end
      /\ _overflowed = FALSE
      /\ _ptr = buf
      /\ _size = addPadding(capa)
      /\ root = NoRoot
      /\ lastOp = "MemoryPool"
      /\ arg = 0
      /\ ret = 0
      /\ calls = (IF addPadding(capa) = 0 THEN <<>>
                  ELSE <<Call("allocate", 0, addPadding(capa), buf)>>)
      /\ prior = -1
      /\ alive = TRUE
      /\ src = NoSrc

\* ------------------------------------------------------------ allocVariant

\* allocRight clearing the overflow flag when it succeeds.
allocRightAutoClear(bytes) ==
  IF ~canAlloc(bytes)
    THEN [p |-> 0, right |-> _right, overflowed |-> TRUE]
    ELSE [p |-> _right - bytes, right |-> _right - bytes, overflowed |-> FALSE]

\* allocRight returning _right as it was before "_right -= bytes".
allocRightStale(bytes) ==
  IF ~canAlloc(bytes)
    THEN [p |-> 0, right |-> _right, overflowed |-> TRUE]
    ELSE [p |-> _right, right |-> _right - bytes, overflowed |-> _overflowed]

\* allocRight(bytes): the address returned (0 when the bytes do not fit), and
\* the _right and _overflowed it leaves.
allocRight(bytes) ==
  IF ~canAlloc(bytes)
    THEN [p |-> 0, right |-> _right, overflowed |-> TRUE]
    ELSE [p |-> _right - bytes, right |-> _right - bytes,
          overflowed |-> _overflowed]

\* CollectionData::addSlot on the root: the caller clears the new slot and
\* appends it to the list.
addSlot(m, r, slot) ==
  LET m1 == [a \in Addr |->
               IF slot <= a /\ a < slot + SlotSize THEN 0 ELSE m[a]]
  IN IF r.tail = 0 THEN m1 ELSE [m1 EXCEPT ![r.tail + 1] = slot]

\* allocVariant(), and on success the caller's addSlot.
AllocVariant ==
  LET r == allocRight(SlotSize)
      slot == r.p
  IN /\ lastOp' = "allocVariant"
     /\ arg' = 0
     /\ UNCHANGED <<alive, src>>
     /\ ret' = slot
     /\ calls' = <<>>
     /\ prior' = -1
     /\ _right' = r.right
     /\ _overflowed' = r.overflowed
     /\ IF slot = 0
          THEN UNCHANGED <<mem, root>>
          ELSE /\ mem' = addSlot(mem, root, slot)
               /\ root' = [head |-> IF root.head = 0 THEN slot ELSE root.head,
                           tail |-> slot]
     /\ UNCHANGED <<_begin, _left, _end, _ptr, _size>>

\* ---------------------------------------------------------------- strings

\* stringEquals of two sized strings: same size, same characters.
stringEquals(s1, s2) == Len(s1) = Len(s2) /\ \A i \in 1..Len(s1) : s1[i] = s2[i]

\* adaptString(p, n): the n cells at p, as a sized string.
adaptString(m, p, n) == [i \in 1..n |-> m[p + i - 1]]

\* The jump to the next terminator left out.
nextTerminatorStay(m, p) == p

\* "while (*next) ++next": the first terminator at or after p.
RECURSIVE nextTerminator(_, _)
nextTerminator(m, p) ==
  IF p >= MemSize THEN MemSize
  ELSE IF m[p] = 0 THEN p
  ELSE nextTerminator(m, p + 1)

\* The loop of findString without the test of the candidate's terminator.
RECURSIVE findFromPrefix(_, _, _)
findFromPrefix(m, str, next) ==
  LET n == Len(str) IN
  IF ~(next + n < _left) THEN 0
  ELSE IF stringEquals(str, adaptString(m, next, n)) THEN next
  ELSE findFromPrefix(m, str, nextTerminator(m, next) + 1)

\* The loop of findString with "next + n <= _left" for its condition.
RECURSIVE findFromInclusive(_, _, _)
findFromInclusive(m, str, next) ==
  LET n == Len(str) IN
  IF ~(next + n <= _left) THEN 0
  ELSE IF m[next + n] = 0 /\ stringEquals(str, adaptString(m, next, n)) THEN next
  ELSE findFromInclusive(m, str, nextTerminator(m, next) + 1)

\* The loop of findString, from the candidate at next.
RECURSIVE findFrom(_, _, _)
findFrom(m, str, next) ==
  LET n == Len(str) IN
  IF ~(next + n < _left) THEN 0
  ELSE IF m[next + n] = 0 /\ stringEquals(str, adaptString(m, next, n)) THEN next
  ELSE findFrom(m, str, nextTerminator(m, next) + 1)

findString(m, str) == findFrom(m, str, _begin)

\* The addresses the loop of findString reads, from the candidate at next:
\* next[n], the n bytes at next when stringEquals is called, and every byte
\* "while (*next) ++next" tests, the terminator it stops at included.
RECURSIVE readsFrom(_, _, _)
readsFrom(m, str, next) ==
  LET n == Len(str)
      terminator == nextTerminator(m, next)
      candidate == next..(next + n - 1)
  IN IF ~(next + n < _left) THEN {}
     ELSE IF m[next + n] # 0
       THEN {next + n} \cup (next..terminator)
              \cup readsFrom(m, str, terminator + 1)
     ELSE IF stringEquals(str, adaptString(m, next, n))
       THEN {next + n} \cup candidate
     ELSE {next + n} \cup candidate \cup (next..terminator)
            \cup readsFrom(m, str, terminator + 1)

\* allocString advancing _left before it tests the room.
allocStringEager(n) ==
  IF ~canAlloc(n)
    THEN [p |-> 0, left |-> _left + n, overflowed |-> TRUE]
    ELSE [p |-> _left, left |-> _left + n, overflowed |-> _overflowed]

\* allocString without the test of canAlloc.
allocStringNoCheck(n) ==
  [p |-> _left, left |-> _left + n, overflowed |-> _overflowed]

\* allocString(n): the address returned (0 when the n bytes do not fit), and
\* the _left and _overflowed it leaves.
allocString(n) ==
  IF ~canAlloc(n)
    THEN [p |-> 0, left |-> _left, overflowed |-> TRUE]
    ELSE [p |-> _left, left |-> _left + n, overflowed |-> _overflowed]

\* The copy without "newCopy[n] = 0".
copyStringNoTerminator(m, str, newCopy) ==
  [a \in Addr |->
     IF newCopy <= a /\ a < newCopy + Len(str) THEN str[a - newCopy + 1]
     ELSE m[a]]

\* stringGetChars(str, newCopy, n); newCopy[n] = 0.
copyString(m, str, newCopy) ==
  [a \in Addr |->
     IF newCopy <= a /\ a < newCopy + Len(str) THEN str[a - newCopy + 1]
     ELSE IF a = newCopy + Len(str) THEN 0
     ELSE m[a]]

\* What the caller does with the address saveString returned: nothing, or
\* store it as the key of the last slot of the root.
Dests == {"none", "key"}

setKey(m, dest, p) ==
  IF dest = "key" /\ p # 0 THEN [m EXCEPT ![root.tail] = p] ELSE m

SaveString(str, dest) ==
  /\ dest = "key" => root.tail # 0
  /\ lastOp' = "saveString"
  /\ arg' = str
  /\ UNCHANGED <<alive, src>>
  /\ calls' = <<>>
  /\ prior' = -1
  /\ IF str = NullString
       THEN /\ ret' = 0
            /\ UNCHANGED <<mem, _left, _overflowed>>
       ELSE LET existingCopy == findString(mem, str)
                n == Len(str)
                r == allocString(n + 1)
                newCopy == r.p
            IN IF existingCopy # 0
                 THEN /\ ret' = existingCopy
                      /\ mem' = setKey(mem, dest, existingCopy)
                      /\ UNCHANGED <<_left, _overflowed>>
                 ELSE /\ ret' = newCopy
                      /\ _left' = r.left
                      /\ _overflowed' = r.overflowed
                      /\ mem' = IF newCopy = 0 THEN mem
                                ELSE setKey(copyString(mem, str, newCopy), dest,
                                            newCopy)
  /\ UNCHANGED <<_begin, _right, _end, _ptr, _size, root>>

\* storeString with the Link policy: the pool is not used.
StoreStringLink(str) ==
  /\ lastOp' = "storeStringLink"
  /\ arg' = 0
  /\ UNCHANGED <<alive, src>>
  /\ ret' = (IF str = NullString THEN 0 ELSE 1)
  /\ calls' = <<>>
  /\ prior' = -1
  /\ UNCHANGED <<mem, _begin, _left, _right, _end, _overflowed, _ptr, _size,
                 root>>

MarkAsOverflowed ==
  /\ lastOp' = "markAsOverflowed"
  /\ arg' = 0
  /\ UNCHANGED <<alive, src>>
  /\ ret' = 0
  /\ calls' = <<>>
  /\ prior' = -1
  /\ _overflowed' = TRUE
  /\ UNCHANGED <<mem, _begin, _left, _right, _end, _ptr, _size, root>>

\* clear() leaving the overflow flag as it is.
ClearKeepFlag ==
  /\ lastOp' = "clear"
  /\ arg' = 0
  /\ UNCHANGED <<alive, src>>
  /\ ret' = 0
  /\ calls' = <<>>
  /\ _left' = _begin
  /\ _right' = _end
  /\ root' = NoRoot
  /\ prior' = -1
  /\ UNCHANGED <<mem, _begin, _end, _ptr, _size, _overflowed>>

\* clear(); the document forgets its root with it.
Clear ==
  /\ lastOp' = "clear"
  /\ arg' = 0
  /\ UNCHANGED <<alive, src>>
  /\ ret' = 0
  /\ calls' = <<>>
  /\ _left' = _begin
  /\ _right' = _end
  /\ _overflowed' = FALSE
  /\ root' = NoRoot
  /\ prior' = -1
  /\ UNCHANGED <<mem, _begin, _end, _ptr, _size>>

\* --------------------------------------------------------------- free zone

\* The caller's writes into the zone getFreeZone gave it.
writeZone(m, str) ==
  [a \in Addr |->
     IF _left <= a /\ a < _left + Len(str) THEN str[a - _left + 1] ELSE m[a]]

\* getFreeZone: zoneStart and zoneSize.
getFreeZone == [zoneStart |-> _left, zoneSize |-> _right - _left]

\* getFreeZone, the caller writing str into the zone, then
\* saveStringFromFreeZone(len); room tells how many bytes of the zone the
\* caller may use.
commitFreeZone(str, room) ==
  LET len == Len(str)
      written == writeZone(mem, str)
      dup == findString(written, adaptString(written, _left, len))
  IN /\ room
     /\ lastOp' = "saveStringFromFreeZone"
     /\ arg' = str
     /\ UNCHANGED <<alive, src>>
     /\ calls' = <<>>
     /\ prior' = -1
     /\ IF dup # 0
          THEN /\ ret' = dup
               /\ mem' = written
               /\ UNCHANGED _left
          ELSE /\ ret' = _left
               /\ mem' = [written EXCEPT ![_left + len] = 0]
               /\ _left' = _left + len + 1
     /\ UNCHANGED <<_begin, _right, _end, _overflowed, _ptr, _size, root>>

\* The caller leaves room for the terminator.
SaveStringFromFreeZone(str) ==
  commitFreeZone(str, Len(str) < getFreeZone.zoneSize)

\* The caller uses the whole zone.
SaveStringFromFreeZoneFull(str) ==
  commitFreeZone(str, Len(str) = getFreeZone.zoneSize)

\* ------------------------------------------------------------- shrinkToFit

\* The slots left where they were.
memmoveSkipped(m, dst, from, n) == m

memmove(m, dst, from, n) ==
  [a \in Addr |-> IF dst <= a /\ a < dst + n THEN m[a - dst + from] ELSE m[a]]

\* squash() without "_right = new_right".
squashKeepRight ==
  LET new_right == addPadding(_left)
      right_size == _end - _right
  IN IF new_right >= _right
       THEN [reclaimed |-> 0, right |-> _right, end |-> _end, mem |-> mem]
       ELSE [reclaimed |-> _right - new_right,
             right |-> _right,
             end |-> new_right + right_size,
             mem |-> memmove(mem, new_right, _right, right_size)]

\* squash(): the bytes reclaimed, and the _right, _end and memory it leaves.
squash ==
  LET new_right == addPadding(_left)
      right_size == _end - _right
  IN IF new_right >= _right
       THEN [reclaimed |-> 0, right |-> _right, end |-> _end, mem |-> mem]
       ELSE [reclaimed |-> _right - new_right,
             right |-> new_right,
             end |-> new_right + right_size,
             mem |-> memmove(mem, new_right, _right, right_size)]

\* VariantSlot::movePointers on a slot and its siblings: keys move with the
\* strings, sibling references with the slots.
RECURSIVE moveSlots(_, _, _, _)
moveSlots(m, slot, stringDistance, variantDistance) ==
  LET key == m[slot]
      next == m[slot + 1]
      m1 == [m EXCEPT ![slot] = IF key # 0 THEN key + stringDistance ELSE 0,
                      ![slot + 1] = IF next # 0 THEN next + variantDistance ELSE 0]
  IN IF next = 0 THEN m1
     ELSE moveSlots(m1, next + variantDistance, stringDistance, variantDistance)

\* movePointers on the root collection.
moveRoot(r, variantDistance) ==
  [head |-> IF r.head # 0 THEN r.head + variantDistance ELSE 0,
   tail |-> IF r.tail # 0 THEN r.tail + variantDistance ELSE 0]

\* The strings taken to have moved like the slots.
stringDistanceSquashed(ptr_offset, bytes_reclaimed) ==
  ptr_offset - bytes_reclaimed

\* The first argument of variant.movePointers: the strings moved with the
\* buffer.
stringDistance(ptr_offset, bytes_reclaimed) == ptr_offset

\* The second argument of variant.movePointers: the slots moved with the
\* buffer and, before that, down by the bytes squash reclaimed.
variantDistance(ptr_offset, bytes_reclaimed) == ptr_offset - bytes_reclaimed

\* movePointers(offset) after squash: the four cursors it leaves.
movePointers(sq, offset) ==
  [begin |-> _begin + offset,
   left |-> _left + offset,
   right |-> sq.right + offset,
   end |-> sq.end + offset]

\* The addresses reallocate(_begin, n) may return: the same block, another
\* one, and for a size of 0 also null.
ReallocTargets(n) ==
  {_begin} \cup FreeBases(n, _ptr, _size) \cup (IF n = 0 THEN {0} ELSE {})

ShrinkToFit(new_ptr) ==
  LET sq == squash
      bytes_reclaimed == sq.reclaimed
      new_capacity == sq.end - _begin
      ptr_offset == new_ptr - _begin
      moved == movePointers(sq, ptr_offset)
      distance == variantDistance(ptr_offset, bytes_reclaimed)
      m1 == Reallocated(sq.mem, _begin, _size, new_ptr, new_capacity)
      r1 == moveRoot(root, distance)
  IN /\ lastOp' = "shrinkToFit"
     /\ arg' = 0
     /\ UNCHANGED <<alive, src>>
     /\ ret' = bytes_reclaimed
     /\ prior' = (IF lastOp = "shrinkToFit" THEN ret ELSE -1)
     /\ IF bytes_reclaimed = 0
          THEN /\ new_ptr = _begin
               /\ calls' = <<>>
               /\ UNCHANGED <<mem, _begin, _left, _right, _end, _ptr, _size,
                              root>>
          ELSE /\ new_ptr \in ReallocTargets(new_capacity)
               /\ calls' = <<Call("reallocate", _begin, new_capacity, new_ptr)>>
               /\ _ptr' = new_ptr
               /\ _size' = new_capacity
               /\ _begin' = moved.begin
               /\ _left' = moved.left
               /\ _right' = moved.right
               /\ _end' = moved.end
               /\ root' = r1
               /\ mem' = IF r1.head = 0 THEN m1
                         ELSE moveSlots(m1, r1.head,
                                        stringDistance(ptr_offset,
                                                       bytes_reclaimed),
                                        distance)
     /\ UNCHANGED _overflowed

\* shrinkToFit with an allocator whose reallocate fails: it returns null and
\* leaves the block as it is.  new_ptr is null, and the pointers are moved by
\* its distance to old_ptr all the same.
ShrinkToFitDenied ==
  LET sq == squash
      bytes_reclaimed == sq.reclaimed
      new_capacity == sq.end - _begin
      new_ptr == 0
      ptr_offset == new_ptr - _begin
      moved == movePointers(sq, ptr_offset)
  IN /\ bytes_reclaimed # 0
     /\ new_capacity > 0
     /\ lastOp' = "shrinkToFit"
     /\ arg' = 0
     /\ ret' = bytes_reclaimed
     /\ prior' = (IF lastOp = "shrinkToFit" THEN ret ELSE -1)
     /\ calls' = <<Call("reallocate", _begin, new_capacity, new_ptr)>>
     /\ mem' = sq.mem
     /\ _begin' = moved.begin
     /\ _left' = moved.left
     /\ _right' = moved.right
     /\ _end' = moved.end
     /\ root' = moveRoot(root, variantDistance(ptr_offset, bytes_reclaimed))
     /\ UNCHANGED <<_overflowed, _ptr, _size, alive, src>>

\* -------------------------------------------------------------- reallocPool

\* reallocPool allocating the new buffer without releasing the old one.
reallocPoolCallsNoFree(requiredSize, buf) ==
  IF requiredSize = 0 THEN <<>> ELSE <<Call("allocate", 0, requiredSize, buf)>>

\* The allocator calls of a reallocPool that resizes: deallocate(_begin), then
\* allocPool's allocate(capa) when capa is not 0.
reallocPoolCalls(requiredSize, buf) ==
  <<Call("deallocate", _begin, 0, 0)>> \o
    (IF requiredSize = 0 THEN <<>>
     ELSE <<Call("allocate", 0, requiredSize, buf)>>)

ReallocPool(requiredSize, buf) ==
  LET capa == addPadding(requiredSize) IN
  /\ lastOp' = "reallocPool"
  /\ arg' = 0
  /\ UNCHANGED <<alive, src>>
  /\ ret' = 0
  /\ prior' = -1
  /\ IF capa = capacity
       THEN /\ buf = _begin
            /\ calls' = <<>>
            /\ UNCHANGED <<mem, _begin, _left, _right, _end, _ptr, _size, root>>
       ELSE /\ buf \in (IF requiredSize = 0 THEN {0} ELSE Bases)
            /\ calls' = reallocPoolCalls(requiredSize, buf)
            /\ mem' = Allocated(Freed(mem, _ptr, _size), buf, requiredSize)
            /\ _ptr' = buf
            /\ _size' = requiredSize
            /\ _begin' = allocPool(requiredSize, buf).begin
            /\ _left' = allocPool(requiredSize, buf).left
            /\ _right' = allocPool(requiredSize, buf).right
            /\ _end' = allocPool(requiredSize, buf).end
            /\ root' = NoRoot
  /\ UNCHANGED _overflowed

\* --------------------------------------------------- destruction and move

\* ~MemoryPool().
Destroy ==
  /\ alive
  /\ lastOp' = "~MemoryPool"
  /\ arg' = 0
  /\ ret' = 0
  /\ prior' = -1
  /\ alive' = FALSE
  /\ IF _begin # 0
       THEN /\ calls' = <<Call("deallocate", _begin, 0, 0)>>
            /\ mem' = Freed(mem, _begin, _size)
            /\ _ptr' = 0
            /\ _size' = 0
       ELSE /\ calls' = <<>>
            /\ UNCHANGED <<mem, _ptr, _size>>
  /\ UNCHANGED <<_begin, _left, _right, _end, _overflowed, root, src>>

\* MemoryPool src(capa, allocator): the other pool, with an allocator of its
\* own that places its block at buf, the base this pool's block is not at.
ConstructSrc(capa, buf) ==
  LET n == addPadding(capa)
      c == allocPool(n, buf)
  IN /\ src.st = "none"
     /\ buf \in (IF n = 0 THEN {0} ELSE {b \in Bases : b # _ptr})
     /\ lastOp' = "MemoryPool(src)"
     /\ arg' = 0
     /\ ret' = 0
     /\ prior' = -1
     /\ calls' = (IF n = 0 THEN <<>> ELSE <<Call("allocate", 0, n, buf)>>)
     /\ mem' = Allocated(mem, buf, n)
     /\ src' = [st |-> "alive", begin |-> c.begin, left |-> c.left,
                right |-> c.right, end |-> c.end, overflowed |-> FALSE,
                ptr |-> buf, size |-> n]
     /\ UNCHANGED <<_begin, _left, _right, _end, _overflowed, _ptr, _size, root,
                    alive>>

\* operator=(MemoryPool&& src) leaving the cursors of src as they are.
MoveAssignKeepSrc ==
  /\ alive
  /\ src.st = "alive"
  /\ lastOp' = "operator="
  /\ arg' = 0
  /\ ret' = 0
  /\ prior' = -1
  /\ IF _begin # 0
       THEN /\ calls' = <<Call("deallocate", _begin, 0, 0)>>
            /\ mem' = Freed(mem, _begin, _size)
       ELSE /\ calls' = <<>>
            /\ UNCHANGED mem
  /\ _ptr' = src.ptr
  /\ _size' = src.size
  /\ _begin' = src.begin
  /\ _end' = src.end
  /\ _left' = src.left
  /\ _right' = src.right
  /\ _overflowed' = src.overflowed
  /\ src' = [src EXCEPT !.ptr = 0, !.size = 0]
  /\ root' = NoRoot
  /\ UNCHANGED alive

\* operator=(MemoryPool&& src): the pool releases its buffer and takes the
\* allocator, the cursors and the flag of src, whose cursors become null.  The
\* block of src's allocator is from now on the block of this pool's
\* allocator.
MoveAssign ==
  /\ alive
  /\ src.st = "alive"
  /\ lastOp' = "operator="
  /\ arg' = 0
  /\ ret' = 0
  /\ prior' = -1
  /\ IF _begin # 0
       THEN /\ calls' = <<Call("deallocate", _begin, 0, 0)>>
            /\ mem' = Freed(mem, _begin, _size)
       ELSE /\ calls' = <<>>
            /\ UNCHANGED mem
  /\ _ptr' = src.ptr
  /\ _size' = src.size
  /\ _begin' = src.begin
  /\ _end' = src.end
  /\ _left' = src.left
  /\ _right' = src.right
  /\ _overflowed' = src.overflowed
  /\ src' = [src EXCEPT !.begin = 0, !.end = 0, !.left = 0, !.right = 0,
                        !.ptr = 0, !.size = 0]
  /\ root' = NoRoot
  /\ UNCHANGED alive

\* ~MemoryPool() of src; its members are gone with it.
DestroySrc ==
  /\ src.st = "alive"
  /\ lastOp' = "~MemoryPool(src)"
  /\ arg' = 0
  /\ ret' = 0
  /\ prior' = -1
  /\ IF src.begin # 0
       THEN /\ calls' = <<Call("deallocate", src.begin, 0, 0)>>
            /\ mem' = Freed(mem, src.begin, src.size)
            /\ src' = [NoSrc EXCEPT !.st = "destroyed"]
       ELSE /\ calls' = <<>>
            /\ src' = [NoSrc EXCEPT !.st = "destroyed"]
            /\ UNCHANGED mem
  /\ UNCHANGED <<_begin, _left, _right, _end, _overflowed, _ptr, _size, root,
                 alive>>

\* ---------------------------------------------------------- specifications

Inputs == Strings \cup {NullString}

\* storeString (Link) reads nothing of its string but isNull(): a null and a
\* non-null string are its two cases.
LinkInputs == {NullString, <<1>>}

Next ==
  \/ AllocVariant
  \/ \E str \in Inputs, dest \in Dests : SaveString(str, dest)
  \/ \E str \in LinkInputs : StoreStringLink(str)
  \/ \E str \in Strings : SaveStringFromFreeZone(str)
  \/ MarkAsOverflowed
  \/ Clear
  \/ \E new_ptr \in Bases \cup {0} : ShrinkToFit(new_ptr)
  \/ \E requiredSize \in 0..MaxCapa, buf \in Bases \cup {0} :
       ReallocPool(requiredSize, buf)

Spec == Init /\ [][Next]_vars

\* The operations of a pool that is constructed and then only allocated
\* from, cleared and shrunk.
NextCore ==
  \/ AllocVariant
  \/ \E str \in Inputs, dest \in Dests : SaveString(str, dest)
  \/ Clear
  \/ \E new_ptr \in Bases \cup {0} : ShrinkToFit(new_ptr)

SpecCore == Init /\ [][NextCore]_vars

\* A pool whose callers may fill the free zone to its last byte.
NextZone ==
  \/ AllocVariant
  \/ \E str \in Inputs : SaveString(str, "none")
  \/ \E str \in Strings : SaveStringFromFreeZone(str)
  \/ \E str \in Strings : SaveStringFromFreeZoneFull(str)
  \/ Clear

SpecZone == Init /\ [][NextZone]_vars

\* A pool of strings whose allocator may refuse to reallocate.  Once the pool
\* has lost its buffer (_begin is no longer the allocator's block), what its
\* operations read and write is not followed.
NextDenied ==
  \/ _begin = _ptr /\ \E str \in Inputs : SaveString(str, "none")
  \/ _begin = _ptr /\ Clear
  \/ _begin = _ptr /\ \E new_ptr \in Bases \cup {0} : ShrinkToFit(new_ptr)
  \/ _begin = _ptr /\ ShrinkToFitDenied

SpecDenied == Init /\ [][NextDenied]_vars

\* The strings saved during the life of a pool: a null one, the empty one and
\* one character.
LifeInputs == {NullString, <<>>, <<1>>}

\* The life of a pool next to another one: both are constructed, this one is
\* used, resized, shrunk and move-assigned from the other, and both are
\* destroyed.  The allocator never places a block on the other pool's.
NextLife ==
  \/ alive /\ AllocVariant
  \/ alive /\ \E str \in LifeInputs : SaveString(str, "none")
  \/ alive /\ \E str \in LifeInputs \ {NullString} : SaveStringFromFreeZone(str)
  \/ alive /\ Clear
  \/ alive /\ \E new_ptr \in Bases \cup {0} :
                /\ new_ptr = _begin \/ src.ptr = 0 \/ new_ptr # src.ptr
                /\ ShrinkToFit(new_ptr)
  \/ alive /\ \E requiredSize \in 0..MaxCapa, buf \in Bases \cup {0} :
                /\ buf = _begin \/ src.ptr = 0 \/ buf # src.ptr
                /\ ReallocPool(requiredSize, buf)
  \/ \E capa \in {0, MaxCapa}, buf \in Bases \cup {0} : ConstructSrc(capa, buf)
  \/ MoveAssign
  \/ Destroy
  \/ DestroySrc

SpecLife == Init /\ [][NextLife]_vars

\* --------------------------------------------------------------- the document

\* The NUL-terminated string at p.
cstr(m, p) == adaptString(m, p, nextTerminator(m, p) - p)

\* The slots of the list that starts at slot, in order.
RECURSIVE slotsOf(_, _)
slotsOf(m, slot) ==
  IF slot = 0 THEN <<>> ELSE <<slot>> \o slotsOf(m, m[slot + 1])

\* What serializing the root writes: the key of each slot, in order.
serialize(m, r) ==
  LET sl == slotsOf(m, r.head) IN
  [i \in 1..Len(sl) |->
     IF m[sl[i]] = 0 THEN <<"null">> ELSE <<"key", cstr(m, m[sl[i]])>>]

\* ------------------------------------------------------------------ claims

\* Whether str and its terminator are stored at p, inside the string region.
holds(m, left, p, str) ==
  /\ p # 0
  /\ p + Len(str) < left
  /\ adaptString(m, p, Len(str)) = str
  /\ m[p + Len(str)] = 0

AllocationOps ==
  {"allocVariant", "saveString", "saveStringFromFreeZone", "storeStringLink"}

\* The step is a saveString(str).
saving(str) == lastOp' = "saveString" /\ arg' = str

NulFree(str) == \A i \in 1..Len(str) : str[i] # 0

\* C1: from a freshly constructed pool, after every allocVariant, saveString,
\* clear and shrinkToFit, _begin <= _left <= _right <= _end and _right is
\* pointer-aligned.
C1_Invariants ==
  /\ _begin <= _left
  /\ _left <= _right
  /\ _right <= _end
  /\ isAligned(_right)

\* A shrinkToFit that reclaimed bytes with both regions in use.
C1_Witness ==
  /\ lastOp = "shrinkToFit"
  /\ ret > 0
  /\ _begin < _left
  /\ _right < _end

\* C2: once _overflowed is set, every operation but clear leaves it set.
C2_Sticky == [][(_overflowed /\ lastOp' # "clear") => _overflowed']_vars

\* An allocVariant that succeeded with the flag set.
C2_Witness ==
  /\ _overflowed
  /\ lastOp = "allocVariant"
  /\ ret # 0

\* C3: an allocVariant or a saveString whose bytes do not fit returns null,
\* sets _overflowed and changes no cursor and no byte; no allocation changes
\* the capacity or calls the allocator.
C3_FailedAllocation ==
  [][/\ (AllocVariant /\ ~canAlloc(SlotSize))
          => (ret' = 0 /\ _overflowed' /\ UNCHANGED <<cursors, mem>>)
     /\ \A str \in Strings :
          (~canAlloc(Len(str) + 1) /\ saving(str) /\ findString(mem, str) = 0)
          => (ret' = 0 /\ _overflowed' /\ UNCHANGED <<cursors, mem>>)
     /\ lastOp' \in {"allocVariant", "saveString", "saveStringFromFreeZone"}
          => (capacity' = capacity /\ calls' = <<>>)]_vars

\* An allocVariant that failed with both regions in use.
C3_Witness ==
  /\ lastOp = "allocVariant"
  /\ ret = 0
  /\ _overflowed
  /\ _begin < _left
  /\ _right < _end

\* With found and foundAfter what findString(str) returns before and after
\* the step, that is what a saveString(str) would return (it reads mem, _begin
\* and _left only, and no allocation changes _begin):
\* after a saveString(str) that returned an address, the next would return the
\* same one, and the second call returns what findString found, leaving _left
\* and _overflowed alone.
\* With sameAddress false, the first part only asks for the address of a
\* stored copy.
twice(str, sameAddress) ==
  LET found == findString(mem, str)
      foundAfter == findString(mem, str)'
  IN /\ ret' # 0
          => /\ holds(mem', _left', ret', str)
             /\ holds(mem', _left', foundAfter, str)
             /\ sameAddress => foundAfter = ret'
     /\ found # 0
          => (ret' = found /\ _left' = _left /\ _overflowed' = _overflowed)

\* The allocations in between: a step of an allocating operation that changed
\* the memory or _left keeps what findString returns for every stored string.
inBetween ==
  (lastOp' \in AllocationOps /\ <<mem, _left>>' # <<mem, _left>>)
    => \A str \in Strings :
         findString(mem, str) # 0 => findString(mem, str)' = findString(mem, str)

\* C4 as stated: saveString twice with the same content, whatever the
\* successful allocations in between, returns the same address both times; the
\* second call leaves _left unchanged and does not set _overflowed.
C4_SameAddress ==
  /\ [][\A str \in Strings : saving(str) => twice(str, TRUE)]_vars
  /\ [][inBetween]_vars

\* C4 amended: the same address both times for content without a NUL
\* character; for any content the second call returns the address of a stored
\* copy of it, leaves _left unchanged and does not set _overflowed.
C4_Deduplicated ==
  /\ [][\A str \in Strings : saving(str) => twice(str, NulFree(str))]_vars
  /\ [][inBetween]_vars

\* A saveString that returned a copy stored too far below _left to be new,
\* with no free space left and the flag not set.
C4_Witness ==
  /\ lastOp = "saveString"
  /\ ret # 0
  /\ ret + MaxStrLen + 1 < _left
  /\ _left = _right
  /\ ~_overflowed

\* C5: a shrinkToFit right after a shrinkToFit reclaims nothing, does not
\* call the allocator and changes no cursor, no byte and no reference.
C5_Idempotent ==
  [][(lastOp = "shrinkToFit" /\ lastOp' = "shrinkToFit")
       => /\ ret' = 0
          /\ calls' = <<>>
          /\ capacity' = capacity
          /\ size' = size
          /\ UNCHANGED <<cursors, mem, root>>]_vars

\* The second of two shrinkToFit calls, the first of which reclaimed bytes of
\* a pool with both regions in use.
C5_Witness ==
  /\ lastOp = "shrinkToFit"
  /\ prior > 0
  /\ ret = 0
  /\ _begin < _left
  /\ _right < _end

\* C6: after shrinkToFit the capacity is the padded string bytes plus the slot
\* bytes, the used bytes are what they were, and less than a pointer size of
\* the capacity is unused.
C6_ShrunkCapacity ==
  [][lastOp' = "shrinkToFit"
       => /\ capacity' = addPadding(_left' - _begin') + (_end' - _right')
          /\ size' = size
          /\ capacity' - size' < PtrSize]_vars

\* C7: a shrinkToFit whose reallocate returned new_ptr moves _begin and _left
\* by delta = new_ptr - old _begin, and _right and _end, which squash lowered
\* by the bytes reclaimed, by delta too; every key moved by delta and every
\* slot by delta less the bytes reclaimed; all of them lie in the new buffer
\* and the document reads as before.
C7_Relocation ==
  [][\A new_ptr \in Bases \cup {0} :
       (ShrinkToFit(new_ptr) /\ ret' > 0)
       => LET delta == new_ptr - _begin
              old == slotsOf(mem, root.head)
              new == slotsOf(mem', root'.head)
          IN /\ _begin' = _begin + delta
             /\ _left' = _left + delta
             /\ _right' = (_right - ret') + delta
             /\ _end' = (_end - ret') + delta
             /\ Len(new) = Len(old)
             /\ \A i \in 1..Len(old) :
                  /\ new[i] = old[i] + delta - ret'
                  /\ _right' <= new[i] /\ new[i] + SlotSize <= _end'
                  /\ mem[old[i]] = 0 => mem'[new[i]] = 0
                  /\ mem[old[i]] # 0
                       => /\ mem'[new[i]] = mem[old[i]] + delta
                          /\ _begin' <= mem'[new[i]] /\ mem'[new[i]] < _left'
             /\ root'.tail = (IF root.tail = 0 THEN 0
                              ELSE root.tail + delta - ret')
             /\ serialize(mem', root') = serialize(mem, root)]_vars

\* A shrinkToFit that reclaimed bytes and moved the buffer of a document
\* whose first slot has a key.
C7_Witness ==
  /\ lastOp = "shrinkToFit"
  /\ ret > 0
  /\ calls[1].result # calls[1].ptr
  /\ root.head # 0
  /\ mem[root.head] # 0

\* C8: a saveString that stores a new copy of n characters advances _left by
\* n + 1 and writes the characters and a terminator at the address it returns;
\* a linked string changes nothing of the pool; a successful allocVariant uses
\* one slot size.
C8_BytesUsed ==
  [][/\ \A str \in Strings :
          (ret' # 0 /\ saving(str) /\ findString(mem, str) = 0)
          => /\ ret' = _left
             /\ _left' = _left + Len(str) + 1
             /\ size' = size + Len(str) + 1
             /\ adaptString(mem', ret', Len(str)) = str
             /\ mem'[ret' + Len(str)] = 0
     /\ lastOp' = "storeStringLink"
          => (UNCHANGED <<cursors, _overflowed, mem>> /\ size' = size)
     /\ (lastOp' = "allocVariant" /\ ret' # 0) => size' = size + SlotSize]_vars

\* A saveString that stored a new copy of MaxStrLen characters at the start
\* of the buffer.
C8_Witness ==
  /\ lastOp = "saveString"
  /\ ret # 0
  /\ ret = _begin
  /\ _left = _begin + MaxStrLen + 1

\* C9: clear() empties both regions and resets the flag; _begin, _end and
\* every byte stay as they are and the allocator is not called.
C9_Clear ==
  [][lastOp' = "clear"
       => /\ _left' = _begin
          /\ _right' = _end
          /\ ~_overflowed'
          /\ size' = 0
          /\ capacity' = capacity
          /\ calls' = <<>>
          /\ UNCHANGED <<_begin, _end, mem>>]_vars

\* A cleared pool whose buffer still holds a string at its start and a slot
\* at its end.
C9_Witness ==
  /\ lastOp = "clear"
  /\ capacity > 0
  /\ mem[_begin] # Junk
  /\ mem[_end - 1] # Junk

\* C10: reallocPool(requiredSize) leaves an empty pool of the padded size
\* when that differs from the capacity, and otherwise changes no cursor and
\* does not call the allocator.
C10_ReallocPool ==
  [][\A requiredSize \in 0..MaxCapa, buf \in Bases \cup {0} :
       ReallocPool(requiredSize, buf)
       => IF addPadding(requiredSize) # capacity
            THEN /\ capacity' = addPadding(requiredSize)
                 /\ _left' = _begin'
                 /\ _right' = _end'
                 /\ isAligned(_right')
            ELSE /\ UNCHANGED cursors
                 /\ calls' = <<>>]_vars

\* The allocator calls of the step, operation by operation; resize is what
\* is asked of reallocPool.
allocatorCalls(resize) ==
  /\ lastOp' \in {"allocVariant", "saveString", "saveStringFromFreeZone",
                  "clear"}
       => calls' = <<>>
  /\ lastOp' = "MemoryPool(src)"
       => (Len(calls') <= 1 /\ \A i \in 1..Len(calls') : calls'[i].fn = "allocate")
  /\ lastOp' \in {"~MemoryPool", "~MemoryPool(src)", "operator="}
       => (Len(calls') <= 1
           /\ \A i \in 1..Len(calls') : calls'[i].fn = "deallocate")
  /\ lastOp' = "shrinkToFit"
       => IF ret' > 0
            THEN Len(calls') = 1 /\ calls'[1].fn = "reallocate"
            ELSE calls' = <<>>
  /\ lastOp' = "reallocPool" => resize

\* The constructor's calls: at most one, an allocate.
constructorCalls ==
  lastOp = "MemoryPool"
    => (Len(calls) <= 1 /\ \A i \in 1..Len(calls) : calls[i].fn = "allocate")

\* C11 as stated: every operation calls the allocator at most once: one
\* allocate at construction, one deallocate at destruction or reallocPool,
\* one reallocate in shrinkToFit exactly when squash reclaimed bytes, and no
\* call in allocVariant, saveString, saveStringFromFreeZone and clear.
C11_AtMostOnce ==
  /\ []constructorCalls
  /\ [][allocatorCalls(Len(calls') <= 1
                       /\ \A i \in 1..Len(calls') : calls'[i].fn = "deallocate")]_vars

\* C11 amended: as stated for every operation but reallocPool, which makes
\* no call when the padded size asked is the capacity, and otherwise calls
\* deallocate and then, unless the size asked is 0, allocate.
C11_AllocatorCalls ==
  /\ []constructorCalls
  /\ [][allocatorCalls(
          \A requiredSize \in 0..MaxCapa, buf \in Bases \cup {0} :
            ReallocPool(requiredSize, buf)
              => IF addPadding(requiredSize) = capacity
                   THEN calls' = <<>>
                   ELSE /\ Len(calls') = (IF requiredSize = 0 THEN 1 ELSE 2)
                        /\ calls'[1].fn = "deallocate"
                        /\ Len(calls') = 2 => calls'[2].fn = "allocate")]_vars

\* A reallocPool that released the buffer and allocated another.
C11_Witness ==
  /\ lastOp = "reallocPool"
  /\ Len(calls) = 2
  /\ calls[1].fn = "deallocate"
  /\ calls[2].fn = "allocate"
  /\ src.st = "alive"

\* C12: a saveStringFromFreeZone of at most the bytes getFreeZone reported
\* returns null or leaves _left <= _right; the terminator never takes _left
\* past _right.
C12_FreeZone ==
  [][lastOp' = "saveStringFromFreeZone" => (ret' = 0 \/ _left' <= _right')]_vars

\* The sizes asked of allocRight and allocString.
AllocSizes == (1..(MaxStrLen + 1)) \cup {SlotSize}

\* The state is that of a pool whose last operation was an allocation that
\* failed.
failedAllocation ==
  \/ lastOp = "allocVariant" /\ ret = 0
  \/ lastOp = "saveString" /\ arg # NullString /\ ret = 0

\* The step is a saveString that copies str (str is not null and not stored).
copying(str) == saving(str) /\ findString(mem, str) = 0

\* C13 as stated: after an allocation failed for lack of space, the next
\* allocation (allocVariant, or a saveString that copies) fails too.
C13_AllFail ==
  [][failedAllocation
       => /\ lastOp' = "allocVariant" => ret' = 0
          /\ \A str \in Strings : copying(str) => ret' = 0]_vars

\* C13 amended: an allocation fails exactly when its bytes do not fit
\* between _left and _right, and a size that does not fit keeps not fitting
\* until clear or reallocPool; a smaller one may still succeed.
C13_KeepsFailing ==
  [][/\ \A bytes \in AllocSizes :
          (~canAlloc(bytes) /\ lastOp' \notin {"clear", "reallocPool"})
            => ~(canAlloc(bytes)')
     /\ lastOp' = "allocVariant" => (ret' = 0 <=> ~canAlloc(SlotSize))
     /\ \A str \in Strings :
          copying(str) => (ret' = 0 <=> ~canAlloc(Len(str) + 1))]_vars

\* A saveString that failed while a shorter string still fits.
C13_Witness ==
  /\ lastOp = "saveString"
  /\ arg # NullString
  /\ ret = 0
  /\ _overflowed
  /\ canAlloc(1)
  /\ ~canAlloc(Len(arg) + 1)

\* C14: when reallocate returns null in shrinkToFit, the pool keeps its
\* buffer: the cursors, the capacity and the bytes of the string region are
\* those before the call.
C14_Denied ==
  [][(lastOp' = "shrinkToFit" /\ Len(calls') = 1 /\ calls'[1].result = 0
        /\ calls'[1].size > 0)
       => /\ cursors' = cursors
          /\ capacity' = capacity
          /\ \A a \in _begin..(_left - 1) : mem'[a] = mem[a]]_vars

\* C15: squash in any state the pool reaches.  With new_right the padded
\* _left: when new_right >= _right it returns 0 and changes nothing; otherwise
\* it returns _right - new_right, leaves _right = new_right and _end that much
\* lower, the cells of the slot region are found in the same order from
\* new_right on, and the cells of the string region are untouched (squash
\* assigns neither _begin nor _left).
C15_Squash ==
  LET new_right == addPadding(_left)
      sq == squash
  IN IF new_right >= _right
       THEN /\ sq.reclaimed = 0
            /\ sq.right = _right
            /\ sq.end = _end
            /\ sq.mem = mem
       ELSE /\ sq.reclaimed = _right - new_right
            /\ sq.reclaimed > 0
            /\ sq.right = new_right
            /\ sq.end = new_right + (_end - _right)
            /\ \A i \in 0..(_end - _right - 1) :
                 sq.mem[sq.right + i] = mem[_right + i]
            /\ \A a \in _begin..(_left - 1) : sq.mem[a] = mem[a]

\* A pool with strings, slots and a gap of at least one pointer between
\* them, which squash is about to close.
C15_Witness ==
  /\ _begin < _left
  /\ _right < _end
  /\ squash.reclaimed > 0
  /\ squash.mem # mem
  /\ root.head # 0

\* The string region is a sequence of NUL-terminated strings: one starts at
\* _begin and one after every NUL.  The addresses at which str is stored.
storedAt(m, str) ==
  {p \in _begin..(_left - 1) :
     (p = _begin \/ m[p - 1] = 0) /\ holds(m, _left, p, str)}

\* The step is a saveStringFromFreeZone(Len(str)) after str was written at
\* _left.
committing(str) == lastOp' = "saveStringFromFreeZone" /\ arg' = str

\* C16: saveStringFromFreeZone(len) with len < _right - _left.  When the
\* bytes written at _left are those of a string stored in [_begin, _left), it
\* returns the address of that string and leaves _left alone; otherwise it
\* returns the old _left, puts a NUL at old _left + len and advances _left by
\* len + 1.  _begin, _right, _end and _overflowed are unchanged.
C16_FreeZoneCommit ==
  [][\A str \in Strings :
       (committing(str) /\ Len(str) < _right - _left)
         => /\ IF storedAt(mem, str) # {}
                 THEN /\ ret' \in storedAt(mem, str)
                      /\ _left' = _left
                 ELSE /\ ret' = _left
                      /\ mem'[_left + Len(str)] = 0
                      /\ adaptString(mem', _left, Len(str)) = str
                      /\ _left' = _left + Len(str) + 1
            /\ \A a \in _begin..(_left - 1) : mem'[a] = mem[a]
            /\ UNCHANGED <<_begin, _right, _end, _overflowed>>]_vars

\* A saveStringFromFreeZone that returned a stored copy of a string of one
\* character or more and left the bytes written at _left uncommitted.
C16_Witness ==
  /\ lastOp = "saveStringFromFreeZone"
  /\ Len(arg) > 0
  /\ ret # 0
  /\ ret + Len(arg) < _left
  /\ adaptString(mem, _left, Len(arg)) = arg
  /\ _left < _right

\* C17: findString in any state the pool reaches, for every content.  An
\* address a it returns has a + n < _left, the n bytes of the content at a and
\* a NUL at a + n; it returns null when no stored string equals the content
\* (and an address when one does); every byte it reads lies in
\* [_begin, _left), so that each jump to the next terminator ends below
\* _left and the loop ends.
C17_FindString ==
  \A str \in Strings :
    LET a == findString(mem, str) IN
    /\ a # 0 => /\ _begin <= a
                /\ a + Len(str) < _left
                /\ adaptString(mem, a, Len(str)) = str
                /\ mem[a + Len(str)] = 0
    /\ a = 0 <=> storedAt(mem, str) = {}
    /\ \A r \in readsFrom(mem, str, _begin) : _begin <= r /\ r < _left

\* A string region in which findString finds a string of one character or
\* more behind another string, and finds no copy of another content.
C17_Witness ==
  /\ lastOp \in {"saveString", "saveStringFromFreeZone"}
  /\ \E str \in Strings : Len(str) > 0 /\ findString(mem, str) > _begin
  /\ \E str \in Strings :
       /\ findString(mem, str) = 0
       /\ Cardinality(readsFrom(mem, str, _begin)) > 2

\* The slots handed out since the last clear, reallocPool or move of the
\* buffer are those of the root's list.  They lie in [_right, _end), no two
\* of them overlap, and they fill it.
slotsApart ==
  LET sl == slotsOf(mem, root.head) IN
  /\ \A i \in 1..Len(sl) : _right <= sl[i] /\ sl[i] + SlotSize <= _end
  /\ \A i, j \in 1..Len(sl) :
       i # j => (sl[i] + SlotSize <= sl[j] \/ sl[j] + SlotSize <= sl[i])
  /\ Len(sl) * SlotSize = _end - _right

\* The bytes a step hands out are taken from the gap between the regions:
\* a slot is [_right - SlotSize, _right) with _left at or below it, a copied
\* string is [_left, _left + n + 1) with _right at or above it, and the region
\* grows by exactly those bytes.  Every address returned is owned.
handsOut ==
  /\ (lastOp' = "allocVariant" /\ ret' # 0)
       => /\ ret' = _right - SlotSize
          /\ _left <= ret'
          /\ _right' = ret'
          /\ _left' = _left
          /\ owns(ret')
  /\ \A str \in Strings :
       (copying(str) /\ ret' # 0)
         => /\ ret' = _left
            /\ _left' = ret' + Len(str) + 1
            /\ _left' <= _right
            /\ _right' = _right
            /\ owns(ret')
  /\ (lastOp' \in {"saveString", "saveStringFromFreeZone"} /\ ret' # 0)
       => (_begin <= ret' /\ ret' < _left' /\ owns(ret'))

\* Until the next clear, reallocPool or shrinkToFit the buffer stays where it
\* is and the regions only grow, so that what was handed out stays inside
\* them.
regionsGrow ==
  lastOp' \notin {"clear", "reallocPool", "shrinkToFit"}
    => /\ _begin' = _begin
       /\ _end' = _end
       /\ _left <= _left'
       /\ _right' <= _right
       /\ \A a \in _begin..(_left - 1) : mem'[a] = mem[a]

\* C18: between two clear / reallocPool / shrinkToFit calls the byte ranges
\* handed out never overlap: a copied string is [a, a + n + 1) inside
\* [_begin, _left), a slot is a slot-sized range inside [_right, _end), the
\* two regions do not meet, each new range is taken from the gap between
\* them, and every address returned is owned.
C18_Disjoint ==
  /\ [](_left <= _right /\ slotsApart)
  /\ [][handsOut /\ regionsGrow]_vars

\* A full pool that handed out two slots and a string with no clear in
\* between.
C18_Witness ==
  /\ lastOp \in {"allocVariant", "saveString"}
  /\ ret # 0
  /\ Len(slotsOf(mem, root.head)) = 2
  /\ _begin < _left
  /\ _left = _right

\* A pool that lives refers to the live block of its allocator, or to none
\* when there is none; a pool that is gone has left no live block; the two
\* pools never refer to the same buffer.
bufferOwned ==
  /\ alive => (_begin = _ptr /\ capacity = _size)
  /\ ~alive => _ptr = 0
  /\ src.st = "alive"
       => (src.begin = src.ptr /\ src.end - src.begin = src.size)
  /\ src.st # "alive" => src.ptr = 0
  /\ (alive /\ src.st = "alive" /\ _begin # 0) => _begin # src.begin

\* What the step passes to deallocate or reallocate is the live block of the
\* allocator of the pool that makes the call.
releases ==
  \A i \in 1..Len(calls') :
    calls'[i].fn \in {"deallocate", "reallocate"}
      => calls'[i].ptr = (IF lastOp' = "~MemoryPool(src)" THEN src.ptr ELSE _ptr)

\* A move-assignment deallocates the buffer the pool had, gives it the
\* cursors of src and leaves those of src null; the destructor of a src
\* without a buffer makes no call.
moved ==
  /\ lastOp' = "operator="
       => /\ src'.begin = 0 /\ src'.left = 0 /\ src'.right = 0 /\ src'.end = 0
          /\ cursors' = <<src.begin, src.left, src.right, src.end>>
          /\ calls' = (IF _begin # 0 THEN <<Call("deallocate", _begin, 0, 0)>>
                       ELSE <<>>)
  /\ (lastOp' = "~MemoryPool(src)" /\ src.begin = 0) => calls' = <<>>

====
